---------------------------- MODULE Spec2Model ----------------------------
(***************************************************************************)
(* Weather API service: the /weather request orchestration (cache lookup   *)
(* in the object store, provider fetch, best-effort store write and        *)
(* best-effort event logging), the object store and the event table it     *)
(* talks to, and the application's global exception handler.               *)
(*                                                                         *)
(* Strings the code builds are sequences of one-character strings (or of   *)
(* fixed tokens such as "weather_data/"), so that lower(), replace(),      *)
(* prefix matching and the store's key order are computed, not assumed.    *)
(* An Optional value is a sequence of length 0 (None) or 1.                *)
(***************************************************************************)
EXTENDS Integers, Sequences, FiniteSets, TLC

(***************************************************************************)
(* Bounds of the model.                                                    *)
(***************************************************************************)
MaxPeerWrites == 1     \* readings other processes of the service store
MaxSmallTicks == 1     \* clock advances of one tick
MaxJumps == 1          \* clock advances of just under the cache TTL
TicksPerSecond == 2    \* clock resolution: ticks in one second
KeyTimeWidth == 4      \* digits of the seconds count in a key
MaxEvents == 2         \* events other requests put in the event table
MaxTieKeys == 3        \* objects of one city in the bucket of the tie-break check

(***************************************************************************)
(* Program constants.                                                      *)
(***************************************************************************)
cache_expiry_minutes == 5
SecondsPerMinute == 60
MaxKeys == 1000        \* objects in one list_objects_v2 response
StatsLimit == 100      \* get_recent_events(limit=100) in get_stats
StatsHours == 24       \* list_recent_files(hours=24) in get_stats
MinutesPerHour == 60

TTLTicks == cache_expiry_minutes * SecondsPerMinute * TicksPerSecond
JumpTicks == TTLTicks - 1

Workers == {1}        \* the requests in flight in this process

(***************************************************************************)
(* Inputs: the city strings of requests, and the city names the provider   *)
(* reports in its payload ("name").                                        *)
(***************************************************************************)
Cities == { <<"a">>, <<"A", " ", "b">> }
ProviderNames == { <<"A">>, <<"a", " ", "b">> }
ProviderOutcomes == {"ok", "404", "http_error", "network", "missing_field", "bad_json"}

None == << >>
Some(x) == << x >>

(***************************************************************************)
(* Text: a format and the city interpolated in it (empty when none is).    *)
(***************************************************************************)
Msg(fmt, arg) == [fmt |-> fmt, arg |-> arg]

(***************************************************************************)
(* str.lower() and str.replace(' ', '_') on the model's alphabet.          *)
(***************************************************************************)
Lower(ch) ==
    CASE ch = "A" -> "a"
      [] ch = "B" -> "b"
      [] OTHER -> ch

NormalizeCity(city) ==
    [i \in 1..Len(city) |->
        IF Lower(city[i]) = " " THEN "_" ELSE Lower(city[i])]

(***************************************************************************)
(* strftime("%Y%m%d_%H%M%S"): fixed width, most significant digit first,   *)
(* second precision.  The model's clock counts ticks from its origin.      *)
(***************************************************************************)
DigitChars == <<"0", "1", "2", "3", "4", "5", "6", "7", "8", "9">>

RECURSIVE Pow10(_)
Pow10(n) == IF n = 0 THEN 1 ELSE 10 * Pow10(n - 1)

FormatTimestamp(t) ==
    LET secs == t \div TicksPerSecond
    IN  [i \in 1..KeyTimeWidth |->
            DigitChars[((secs \div Pow10(KeyTimeWidth - i)) % 10) + 1]]

GenerateFileKey(city, timestamp) ==
    <<"weather_data/">> \o NormalizeCity(city) \o <<"_">>
        \o FormatTimestamp(timestamp) \o <<".json">>

CityPrefix(city) == <<"weather_data/">> \o NormalizeCity(city) \o <<"_">>

S3Path(key) == <<"s3://", "weather-data-bucket", "/">> \o key

IsPrefix(p, s) ==
    /\ Len(p) <= Len(s)
    /\ \A i \in 1..Len(p) : s[i] = p[i]

(***************************************************************************)
(* The object store lists keys in UTF-8 binary order.                      *)
(***************************************************************************)
CharCode(ch) ==
    CASE ch = "weather_data/" -> 0
      [] ch = " " -> 32
      [] ch = ".json" -> 46
      [] ch = "0" -> 48 [] ch = "1" -> 49 [] ch = "2" -> 50 [] ch = "3" -> 51
      [] ch = "4" -> 52 [] ch = "5" -> 53 [] ch = "6" -> 54 [] ch = "7" -> 55
      [] ch = "8" -> 56 [] ch = "9" -> 57
      [] ch = "A" -> 65 [] ch = "B" -> 66
      [] ch = "_" -> 95
      [] ch = "a" -> 97 [] ch = "b" -> 98
      [] OTHER -> 127

KeyLess(k1, k2) ==
    \/ Len(k1) < Len(k2) /\ IsPrefix(k1, k2)
    \/ \E i \in 1..Len(k1) :
          /\ i <= Len(k2)
          /\ \A j \in 1..(i - 1) : k1[j] = k2[j]
          /\ CharCode(k1[i]) < CharCode(k2[i])

VARIABLES
    now,        \* the clock (datetime.utcnow()), in ticks
    store,      \* the bucket's objects written since the clock's origin
    backlog,    \* per city key, the number of objects written long before it
    events,     \* the event table, in the order the items were put
    uuids,      \* uuid4 values generated so far
    req,        \* per worker, the locals of the get_weather call it runs
    calls,      \* per worker, the calls its request made to the services
    peers       \* readings stored by other processes so far

vars == <<now, store, backlog, events, uuids, req, calls, peers>>

StoreKeys == { NormalizeCity(c) : c \in Cities \cup ProviderNames }

IdleRequest ==
    [pc |-> "idle", city |-> << >>, start_time |-> 0, latest_key |-> None,
     cached_data |-> None, cache_age |-> None, weather_data |-> None,
     s3_path |-> << >>, error |-> None, cache_error |-> FALSE,
     response |-> None]

\* what the services were asked and answered: the outcome of each provider
\* call, whether each store write and each log call returned, and the ids of
\* the events put
NoCalls == [lookup |-> 0, provider |-> << >>, store |-> << >>, log |-> << >>,
            logged |-> << >>]

Init ==
    /\ now = 0
    /\ store = {}
    /\ backlog \in { [k \in StoreKeys |-> 0],
                     [k \in StoreKeys |-> IF k = <<"a">> THEN MaxKeys ELSE 0] }
    /\ events = << >>
    /\ uuids = 0
    /\ req = [w \in Workers |-> IdleRequest]
    /\ calls = [w \in Workers |-> NoCalls]
    /\ peers = 0

(***************************************************************************)
(* list_objects_v2(Bucket, Prefix): the objects whose key starts with the  *)
(* prefix, in key order, at most MaxKeys of them (the call is made once;   *)
(* the continuation token of a truncated listing is never followed).       *)
(* Backlog objects of city key k have keys weather_data/k_<time>.json with *)
(* times before the clock's origin, so they sort before every object of    *)
(* the same city in the store, and they were last modified more than the   *)
(* TTL before the origin.                                                  *)
(***************************************************************************)
BacklogKey(k) ==
    <<"weather_data/">> \o k \o <<"_">> \o [i \in 1..KeyTimeWidth |-> "0"]

RECURSIVE SumBacklog(_, _)
SumBacklog(bl, S) ==
    IF S = {} THEN 0
    ELSE LET k == CHOOSE x \in S : TRUE
         IN  bl[k] + SumBacklog(bl, S \ {k})

Matching(objs, prefix) == { o \in objs : IsPrefix(prefix, o.key) }

MatchingBacklog(prefix) == { k \in StoreKeys : IsPrefix(prefix, BacklogKey(k)) }

Preceding(objs, bl, prefix, key) ==
    Cardinality({ p \in Matching(objs, prefix) : KeyLess(p.key, key) })
      + SumBacklog(bl, { k \in MatchingBacklog(prefix) : ~KeyLess(key, BacklogKey(k)) })

ListObjectsV2(objs, bl, prefix) ==
    LET total == Cardinality(Matching(objs, prefix))
                   + SumBacklog(bl, MatchingBacklog(prefix))
    IN  [KeyCount |-> IF total < MaxKeys THEN total ELSE MaxKeys,
         Contents |-> { o \in Matching(objs, prefix) :
                           Preceding(objs, bl, prefix, o.key) < MaxKeys }]

(***************************************************************************)
(* get_cached_weather_data: the freshness filter and the choice of the     *)
(* latest object.  max() keeps the first of several maximal elements, and  *)
(* the listing is in key order.                                            *)
(***************************************************************************)
CacheCutoff(t) == t - TTLTicks

ValidObjects(contents, cutoff) == { o \in contents : o.LastModified > cutoff }

\* max() over a listing whose order changes with the calls in flight
LatestObjAnyOrder(valid) ==
    CHOOSE o \in valid :
        \A p \in valid :
            \/ p.LastModified < o.LastModified
            \/ /\ p.LastModified = o.LastModified
               /\ IF Cardinality({ w \in DOMAIN req : req[w].pc = "lookup" }) = 1
                  THEN ~KeyLess(p.key, o.key)
                  ELSE ~KeyLess(o.key, p.key)

LatestObj(valid) ==
    CHOOSE o \in valid :
        \A p \in valid :
            \/ p.LastModified < o.LastModified
            \/ p.LastModified = o.LastModified /\ ~KeyLess(p.key, o.key)

(***************************************************************************)
(* WeatherData, its JSON form (model_dump(mode='json') and json.dumps:     *)
(* each datetime as its isoformat() string, a float by its repr, None as   *)
(* null) and its reconstruction from the stored JSON.  A temperature is    *)
(* counted in tenths of a degree.                                          *)
(***************************************************************************)
WeatherData(city, timestamp) == [city |-> city, timestamp |-> timestamp]

\* the other fields of a reading: a float, an int and an Optional[datetime]
Measured(wd, temperature, humidity, sunrise) ==
    [f \in DOMAIN wd \cup {"temperature", "humidity", "sunrise"} |->
        CASE f = "temperature" -> temperature
          [] f = "humidity" -> humidity
          [] f = "sunrise" -> sunrise
          [] OTHER -> wd[f]]

DigitValue(ch) == CHOOSE d \in 0..9 : DigitChars[d + 1] = ch

RECURSIVE Digits(_)
Digits(n) ==
    IF n < 10 THEN << DigitChars[n + 1] >>
    ELSE Digits(n \div 10) \o << DigitChars[(n % 10) + 1] >>

RECURSIVE ParseDigits(_)
ParseDigits(s) ==
    IF s = << >> THEN 0
    ELSE ParseDigits(SubSeq(s, 1, Len(s) - 1)) * 10 + DigitValue(s[Len(s)])

\* an isoformat() that always stops at the seconds
IsoFormatSeconds(t) == FormatTimestamp(t)

\* datetime.isoformat(): the fraction of the second is written only when
\* it is not zero
IsoFormat(t) ==
    FormatTimestamp(t) \o
        (IF t % TicksPerSecond = 0 THEN << >>
         ELSE << ".", DigitChars[(t % TicksPerSecond) + 1] >>)

\* the datetime pydantic builds from an ISO-8601 string
FromIsoFormat(s) ==
    ParseDigits(SubSeq(s, 1, KeyTimeWidth)) * TicksPerSecond
        + (IF Len(s) > KeyTimeWidth THEN DigitValue(s[KeyTimeWidth + 2]) ELSE 0)

\* float.__repr__ in the JSON text, and the float json.loads reads
FloatRepr(x) ==
    LET a == IF x < 0 THEN -x ELSE x
    IN  (IF x < 0 THEN << "-" >> ELSE << >>)
            \o Digits(a \div 10) \o << ".", DigitChars[(a % 10) + 1] >>

ParseFloat(s) ==
    LET body == IF s[1] = "-" THEN Tail(s) ELSE s
        dot == CHOOSE i \in 1..Len(body) : body[i] = "."
        a == ParseDigits(SubSeq(body, 1, dot - 1)) * 10 + DigitValue(body[dot + 1])
    IN  IF s[1] = "-" THEN -a ELSE a

ModelDump(wd) ==
    [f \in DOMAIN wd |->
        CASE f = "timestamp" -> IsoFormat(wd[f])
          [] f = "sunrise" -> IF wd[f] = None THEN << "null" >> ELSE IsoFormat(wd[f][1])
          [] f = "temperature" -> FloatRepr(wd[f])
          [] OTHER -> wd[f]]

ParseWeatherData(d) ==
    [f \in DOMAIN d |->
        CASE f = "timestamp" -> FromIsoFormat(d[f])
          [] f = "sunrise" -> IF d[f] = << "null" >> THEN None ELSE Some(FromIsoFormat(d[f]))
          [] f = "temperature" -> ParseFloat(d[f])
          [] OTHER -> d[f]]

(***************************************************************************)
(* Responses.  A WeatherResponse is sent with status 200; an HTTPException *)
(* is sent as its status and {"detail": ...}.                              *)
(***************************************************************************)
NoMsg == Msg("", << >>)

WeatherResponse(data, message, cached, cache_age_minutes) ==
    [status |-> 200, success |-> TRUE, data |-> Some(data), message |-> message,
     cached |-> cached, cache_age_minutes |-> cache_age_minutes, detail |-> NoMsg,
     details |-> None]

HTTPException(status_code, detail) ==
    [status |-> status_code, success |-> FALSE, data |-> None, message |-> NoMsg,
     cached |-> FALSE, cache_age_minutes |-> None, detail |-> detail,
     details |-> None]

Minutes(ticks) == [num |-> ticks, den |-> SecondsPerMinute * TicksPerSecond]

(***************************************************************************)
(* Exceptions: a class and str(e).  except ValueError also catches the     *)
(* subclasses of ValueError, json.JSONDecodeError among them.              *)
(***************************************************************************)
Exc(class, text) == [class |-> class, text |-> text]

IsValueError(e) == e.class \in {"ValueError", "JSONDecodeError"}

CityNotFound(city) == Msg("City '%s' not found", city)

(***************************************************************************)
(* The clock.                                                              *)
(***************************************************************************)
Tick ==
    /\ (now % JumpTicks) < MaxSmallTicks
    /\ now' = now + 1
    /\ UNCHANGED <<store, backlog, events, uuids, req, calls, peers>>

Jump ==
    /\ (now \div JumpTicks) < MaxJumps
    /\ now' = now + JumpTicks
    /\ UNCHANGED <<store, backlog, events, uuids, req, calls, peers>>

(***************************************************************************)
(* get_weather: entry.                                                     *)
(***************************************************************************)
Request(w, city) ==
    /\ req[w].pc = "idle"
    /\ req' = [req EXCEPT ![w] = [IdleRequest EXCEPT
                  !.pc = "lookup", !.city = city, !.start_time = now]]
    /\ calls' = [calls EXCEPT ![w] = NoCalls]
    /\ UNCHANGED <<now, store, backlog, events, uuids, peers>>

(***************************************************************************)
(* GET /weather without the city parameter.  city is declared Query(...):  *)
(* required, so the framework answers 422 from the parameter validation    *)
(* and the body of get_weather does not run.  The request keeps the name   *)
(* of the parameter that was missing.                                      *)
(***************************************************************************)
RequestValidationError(loc) == [status |-> 422, success |-> FALSE, data |-> None,
     message |-> NoMsg, cached |-> FALSE, cache_age_minutes |-> None,
     detail |-> Msg("Field required", loc), details |-> None]

WithMissing(r, loc) ==
    [f \in DOMAIN r \cup {"missing"} |-> IF f = "missing" THEN loc ELSE r[f]]

\* a parameter declared with a default: the body runs with the empty string
MissingCityDefaults(r) ==
    WithMissing([r EXCEPT !.pc = "lookup", !.city = << >>, !.start_time = now],
                << "query", "city" >>)

\* city: str = Query(...)
MissingCity(r) ==
    WithMissing([r EXCEPT !.pc = "rejected",
                    !.response = Some(RequestValidationError(<< "query", "city" >>))],
                << "query", "city" >>)

RequestWithoutCity(w) ==
    /\ req[w].pc = "idle"
    /\ req' = [req EXCEPT ![w] = MissingCity(IdleRequest)]
    /\ calls' = [calls EXCEPT ![w] = NoCalls]
    /\ UNCHANGED <<now, store, backlog, events, uuids, peers>>

(***************************************************************************)
(* get_weather, step 1: get_cached_weather_data up to the listing.  Any    *)
(* exception inside it is logged as a warning and None is returned.        *)
(***************************************************************************)
\* a lookup without its try block: the failure reaches the outer handler
CacheFailurePropagates(r, failed) ==
    IF failed
    THEN [r EXCEPT !.pc = "internal", !.cache_error = TRUE,
             !.error = Some(Exc("Exception", Msg("list_objects_v2 failed", << >>)))]
    ELSE [r EXCEPT !.pc = "fetch", !.cached_data = None, !.cache_error = FALSE]

\* except Exception: a warning, and None is returned
CacheMiss(r, failed) ==
    [r EXCEPT !.pc = "fetch", !.cached_data = None, !.cache_error = failed]

CacheList(w) ==
    /\ req[w].pc = "lookup"
    /\ \E ok \in BOOLEAN :
          LET response == ListObjectsV2(store, backlog, CityPrefix(req[w].city))
              valid_objects == ValidObjects(response.Contents, CacheCutoff(now))
          IN  req' = [req EXCEPT ![w] =
                  IF ~ok THEN CacheMiss(req[w], TRUE)
                  ELSE IF response.KeyCount = 0 THEN CacheMiss(req[w], FALSE)
                  ELSE IF valid_objects = {} THEN CacheMiss(req[w], FALSE)
                  ELSE [req[w] EXCEPT !.pc = "cache_get",
                           !.latest_key = Some(LatestObj(valid_objects).key)]]
    /\ calls' = [calls EXCEPT ![w].lookup = @ + 1]
    /\ UNCHANGED <<now, store, backlog, events, uuids, peers>>

(***************************************************************************)
(* get_cached_weather_data from get_object on, and the cache age that      *)
(* get_weather computes from the returned reading.                         *)
(***************************************************************************)
\* an age counted from the time the store last modified the object
CacheAgeSinceLastModified(t, cached_data) ==
    t - (CHOOSE o \in store : ParseWeatherData(o.body) = cached_data).LastModified

\* datetime.utcnow() - cached_data.timestamp
CacheAge(t, cached_data) == t - cached_data.timestamp

CacheGet(w) ==
    /\ req[w].pc = "cache_get"
    /\ \E ok \in BOOLEAN :
          req' = [req EXCEPT ![w] =
              IF ~ok THEN CacheMiss(req[w], TRUE)
              ELSE LET obj == CHOOSE o \in store : o.key = req[w].latest_key[1]
                       weather_data == ParseWeatherData(obj.body)
                   IN  [req[w] EXCEPT !.pc = "cache_hit",
                           !.cached_data = Some(weather_data),
                           !.cache_age = Some(CacheAge(now, weather_data))]]
    /\ UNCHANGED <<now, store, backlog, events, uuids, calls, peers>>

(***************************************************************************)
(* An exception in the body of get_weather's try block that no inner       *)
(* handler covers reaches the outer except Exception.                      *)
(***************************************************************************)
Unexpected(w) ==
    /\ req[w].pc = "lookup"
    /\ req' = [req EXCEPT ![w].pc = "internal",
                  ![w].error = Some(Exc("Exception", Msg("unexpected failure", << >>)))]
    /\ UNCHANGED <<now, store, backlog, events, uuids, calls, peers>>

(***************************************************************************)
(* log_weather_event: a new event id, the timestamp of the call, and one   *)
(* put_item; it raises when the put fails.                                 *)
(***************************************************************************)
\* an event id that is not generated anew for each event
WeatherEventSameId(event_id, city, timestamp, s3_path, response_time_ms, cached, error) ==
    [event_id |-> 1, city |-> city, timestamp |-> timestamp,
     s3_path |-> s3_path, response_time_ms |-> response_time_ms,
     cached |-> cached, error |-> error]

WeatherEvent(event_id, city, timestamp, s3_path, response_time_ms, cached, error) ==
    [event_id |-> event_id, city |-> city, timestamp |-> timestamp,
     s3_path |-> s3_path, response_time_ms |-> response_time_ms,
     cached |-> cached, error |-> error]

\* put_item: the item takes the place of an item with the same key, if any
PutItem(table, item) ==
    IF \E i \in DOMAIN table : table[i].event_id = item.event_id
    THEN [i \in DOMAIN table |->
             IF table[i].event_id = item.event_id THEN item ELSE table[i]]
    ELSE Append(table, item)

LogWeatherEvent(w, s3_path, cached, error, ok) ==
    LET event == WeatherEvent(uuids + 1, req[w].city, now, s3_path,
                              now - req[w].start_time, cached, error)
    IN  /\ uuids' = uuids + 1
        /\ events' = IF ok THEN PutItem(events, event) ELSE events
        /\ calls' = [calls EXCEPT ![w].log = Append(@, ok),
                        ![w].logged = IF ok THEN Append(@, event.event_id) ELSE @]

(***************************************************************************)
(* The handlers around the calls.                                          *)
(***************************************************************************)
\* a log call outside any try block: its failure reaches the outer handler
LogFailurePropagates(ok, r, normal) ==
    IF ok THEN normal
    ELSE [r EXCEPT !.pc = "internal",
             !.error = Some(Exc("Exception", Msg("put_item failed", << >>)))]

\* except Exception around a log call: a warning, and the handler goes on
AfterLog(ok, r, normal) == normal

\* return of a WeatherResponse
Return(r, response) == [r EXCEPT !.pc = "done", !.response = Some(response)]

\* a try block without "except HTTPException: raise": the outer handler
\* catches the HTTPException as any other exception
RaiseCaughtByOuter(r, exception) ==
    [r EXCEPT !.pc = "internal", !.error = Some(Exc("HTTPException", exception.detail))]

\* raise HTTPException inside the try block: except HTTPException re-raises it
Raise(r, exception) == [r EXCEPT !.pc = "done", !.response = Some(exception)]

(***************************************************************************)
(* get_weather, cache hit: log with s3_path "cached", respond cached.      *)
(***************************************************************************)
CachedMessage(city) == Msg("Weather data for %s (cached)", city)

LogCached(w) ==
    /\ req[w].pc = "cache_hit"
    /\ \E ok \in BOOLEAN :
          /\ LogWeatherEvent(w, <<"cached">>, TRUE, None, ok)
          /\ req' = [req EXCEPT ![w] = AfterLog(ok, req[w],
                        Return(req[w],
                            WeatherResponse(req[w].cached_data[1], CachedMessage(req[w].city),
                                TRUE, Some(Minutes(req[w].cache_age[1])))))]
    /\ UNCHANGED <<now, store, backlog, peers>>

(***************************************************************************)
(* WeatherService.get_weather_data: one GET to the provider.               *)
(***************************************************************************)
FetchResult(city, outcome, name, t) ==
    CASE outcome = "ok" ->
            [ok |-> TRUE, data |-> Some(WeatherData(name, t)), exc |-> None]
      [] outcome = "404" ->
            [ok |-> FALSE, data |-> None,
             exc |-> Some(Exc("ValueError", CityNotFound(city)))]
      [] outcome = "http_error" ->
            [ok |-> FALSE, data |-> None,
             exc |-> Some(Exc("HTTPStatusError", Msg("Server error '500' for url", << >>)))]
      [] outcome = "network" ->
            [ok |-> FALSE, data |-> None,
             exc |-> Some(Exc("RequestError", Msg("All connection attempts failed", << >>)))]
      [] outcome = "missing_field" ->
            [ok |-> FALSE, data |-> None,
             exc |-> Some(Exc("ValueError", Msg("Invalid weather data format received", << >>)))]
      [] outcome = "bad_json" ->
            [ok |-> FALSE, data |-> None,
             exc |-> Some(Exc("JSONDecodeError", Msg("Expecting value: line 1 column 1 (char 0)", << >>)))]

Fetch(w) ==
    /\ req[w].pc = "fetch"
    /\ \E outcome \in ProviderOutcomes, name \in ProviderNames :
          /\ outcome # "ok" => name = CHOOSE n \in ProviderNames : TRUE
          /\ LET result == FetchResult(req[w].city, outcome, name, now)
             IN  req' = [req EXCEPT ![w] =
                    IF result.ok
                    THEN [req[w] EXCEPT !.pc = "store", !.weather_data = result.data]
                    ELSE IF IsValueError(result.exc[1])
                    THEN [req[w] EXCEPT !.pc = "not_found", !.error = result.exc]
                    ELSE [req[w] EXCEPT !.pc = "unavailable", !.error = result.exc]]
          /\ calls' = [calls EXCEPT ![w].provider = Append(@, outcome)]
    /\ UNCHANGED <<now, store, backlog, events, uuids, peers>>

(***************************************************************************)
(* get_weather, except ValueError: log the error, raise 404 with str(e).   *)
(***************************************************************************)
\* a handler that hides the error's text behind a fixed detail
NotFoundDetailGeneric(e) == Msg("City not found", << >>)

\* detail=str(e)
NotFoundDetail(e) == e.text

LogNotFound(w) ==
    /\ req[w].pc = "not_found"
    /\ \E ok \in BOOLEAN :
          /\ LogWeatherEvent(w, << >>, FALSE, Some(req[w].error[1].text), ok)
          /\ req' = [req EXCEPT ![w] = AfterLog(ok, req[w],
                        Raise(req[w], HTTPException(404, NotFoundDetail(req[w].error[1]))))]
    /\ UNCHANGED <<now, store, backlog, peers>>

(***************************************************************************)
(* get_weather, except Exception after the fetch: log the error, raise 503 *)
(* with a fixed detail.                                                    *)
(***************************************************************************)
UnavailableDetail(e) == Msg("Weather service temporarily unavailable", << >>)

LogUnavailable(w) ==
    /\ req[w].pc = "unavailable"
    /\ \E ok \in BOOLEAN :
          /\ LogWeatherEvent(w, << >>, FALSE, Some(req[w].error[1].text), ok)
          /\ req' = [req EXCEPT ![w] = AfterLog(ok, req[w],
                        Raise(req[w], HTTPException(503, UnavailableDetail(req[w].error[1]))))]
    /\ UNCHANGED <<now, store, backlog, peers>>

(***************************************************************************)
(* store_weather_data: put_object under the key of the reading's city and  *)
(* capture timestamp; a put under an existing key replaces the object.     *)
(***************************************************************************)
PutObject(objs, key, body, metadata, t) ==
    { o \in objs : o.key # key }
        \cup { [key |-> key, body |-> body, metadata |-> metadata, LastModified |-> t] }

\* a store call outside its try block: its failure reaches the outer handler
StoreFailurePropagates(r) ==
    [r EXCEPT !.pc = "internal",
        !.error = Some(Exc("Exception", Msg("put_object failed", << >>)))]

\* a handler that leaves the location empty
StoreFailedEmptyPath(r) == [r EXCEPT !.pc = "fresh", !.s3_path = << >>]

\* a handler that tries the write again
StoreFailedRetry(r) == [r EXCEPT !.pc = "store"]

\* except Exception around the store call: s3_path = "storage_failed"
StoreFailed(r) == [r EXCEPT !.pc = "fresh", !.s3_path = <<"storage_failed">>]

Store(w) ==
    /\ req[w].pc = "store"
    /\ \E ok \in BOOLEAN :
          /\ LET weather_data == req[w].weather_data[1]
                 file_key == GenerateFileKey(weather_data.city, weather_data.timestamp)
             IN  /\ store' = IF ok
                             THEN PutObject(store, file_key, ModelDump(weather_data),
                                      [city |-> weather_data.city,
                                       timestamp |-> IsoFormat(weather_data.timestamp)],
                                      now)
                             ELSE store
                 /\ req' = [req EXCEPT ![w] =
                       IF ok
                       THEN [req[w] EXCEPT !.pc = "fresh", !.s3_path = S3Path(file_key)]
                       ELSE StoreFailed(req[w])]
          /\ calls' = [calls EXCEPT ![w].store = Append(@, ok)]
    /\ UNCHANGED <<now, backlog, events, uuids, peers>>

(***************************************************************************)
(* The bucket is shared: another process of the service fetches a reading  *)
(* for some city and stores it (its get_weather up to store_weather_data). *)
(***************************************************************************)
PeerStore(name) ==
    /\ peers < MaxPeerWrites
    /\ peers' = peers + 1
    /\ LET weather_data == WeatherData(name, now)
       IN  store' = PutObject(store, GenerateFileKey(weather_data.city, weather_data.timestamp),
                        ModelDump(weather_data),
                        [city |-> weather_data.city,
                         timestamp |-> IsoFormat(weather_data.timestamp)], now)
    /\ UNCHANGED <<now, backlog, events, uuids, req, calls>>

(***************************************************************************)
(* get_weather, fresh success: log with the resolved s3_path, respond.     *)
(***************************************************************************)
FreshMessage(city) == Msg("Current weather data for %s", city)

LogFresh(w) ==
    /\ req[w].pc = "fresh"
    /\ \E ok \in BOOLEAN :
          /\ LogWeatherEvent(w, req[w].s3_path, FALSE, None, ok)
          /\ req' = [req EXCEPT ![w] = AfterLog(ok, req[w],
                        Return(req[w],
                            WeatherResponse(req[w].weather_data[1], FreshMessage(req[w].city),
                                FALSE, None)))]
    /\ UNCHANGED <<now, store, backlog, peers>>

(***************************************************************************)
(* get_weather, outer except Exception: log the error, raise 500 with a    *)
(* fixed detail.                                                           *)
(***************************************************************************)
\* a handler that answers with the text of the exception it caught
InternalDetailRaw(e) == e.text

\* detail="Internal server error"
InternalDetail(e) == Msg("Internal server error", << >>)

LogInternal(w) ==
    /\ req[w].pc = "internal"
    /\ \E ok \in BOOLEAN :
          /\ LogWeatherEvent(w, << >>, FALSE, Some(req[w].error[1].text), ok)
          /\ req' = [req EXCEPT ![w] =
                        Raise(req[w], HTTPException(500, InternalDetail(req[w].error[1])))]
    /\ UNCHANGED <<now, store, backlog, peers>>

(***************************************************************************)
(* global_exception_handler: the response to a request whose handling      *)
(* raised an exception that no route caught.                               *)
(***************************************************************************)
UnhandledExceptions == { Exc("RuntimeError", Msg("unhandled failure", << >>)) }

ErrorResponse(message, details) ==
    [status |-> 500, success |-> FALSE, data |-> None, message |-> message,
     cached |-> FALSE, cache_age_minutes |-> None, detail |-> NoMsg,
     details |-> details]

GlobalExceptionHandler(w, exc) ==
    /\ req[w].pc = "idle"
    /\ req' = [req EXCEPT ![w].pc = "handled",
                  ![w].error = Some(exc),
                  ![w].response = Some(ErrorResponse(Msg("Internal server error", << >>),
                                                     Some(exc.text)))]
    /\ UNCHANGED <<now, store, backlog, events, uuids, calls, peers>>

Next ==
    \/ Tick
    \/ Jump
    \/ \E w \in Workers, city \in Cities : Request(w, city)
    \/ \E w \in Workers : CacheList(w)
    \/ \E w \in Workers : CacheGet(w)
    \/ \E w \in Workers : Unexpected(w)
    \/ \E w \in Workers : LogCached(w)
    \/ \E w \in Workers : Fetch(w)
    \/ \E w \in Workers : LogNotFound(w)
    \/ \E w \in Workers : LogUnavailable(w)
    \/ \E w \in Workers : Store(w)
    \/ \E name \in ProviderNames : PeerStore(name)
    \/ \E w \in Workers : LogFresh(w)
    \/ \E w \in Workers : LogInternal(w)
    \/ \E w \in Workers, exc \in UnhandledExceptions : GlobalExceptionHandler(w, exc)

Spec == Init /\ [][Next]_vars

(***************************************************************************)
(* Progress of a request: each of its steps is a call that returns or      *)
(* raises, so a request that has a step to take eventually takes one.      *)
(***************************************************************************)
Progress(w) ==
    \/ CacheList(w)
    \/ CacheGet(w)
    \/ Unexpected(w)
    \/ LogCached(w)
    \/ Fetch(w)
    \/ LogNotFound(w)
    \/ LogUnavailable(w)
    \/ Store(w)
    \/ LogFresh(w)
    \/ LogInternal(w)

NextLive ==
    \/ Tick
    \/ \E w \in Workers, city \in Cities : Request(w, city)
    \/ \E w \in Workers : Progress(w)
    \/ \E name \in ProviderNames : PeerStore(name)

SpecLive == Init /\ [][NextLive]_vars /\ \A w \in Workers : WF_vars(Progress(w))

(***************************************************************************)
(* Two get_weather calls in flight in one process (the handler is a        *)
(* coroutine: each await is a point where the other call may run), with    *)
(* city strings that differ in letter case or in whitespace only.          *)
(***************************************************************************)
Pair == {1, 2}

PairCities == { <<"a">>, <<"A">>, <<"a", " ">> }

InitPair ==
    /\ now = 0
    /\ store = {}
    /\ backlog = [k \in StoreKeys |-> 0]
    /\ events = << >>
    /\ uuids = 0
    /\ req = [w \in Pair |-> IdleRequest]
    /\ calls = [w \in Pair |-> NoCalls]
    /\ peers = 0

NextPair ==
    \/ Tick
    \/ \E w \in Pair, city \in PairCities : Request(w, city)
    \/ \E w \in Pair : CacheList(w)
    \/ \E w \in Pair : CacheGet(w)
    \/ \E w \in Pair : Unexpected(w)
    \/ \E w \in Pair : LogCached(w)
    \/ \E w \in Pair : Fetch(w)
    \/ \E w \in Pair : LogNotFound(w)
    \/ \E w \in Pair : LogUnavailable(w)
    \/ \E w \in Pair : Store(w)
    \/ \E w \in Pair : LogFresh(w)
    \/ \E w \in Pair : LogInternal(w)

SpecPair == InitPair /\ [][NextPair]_vars

(***************************************************************************)
(* One call of get_weather that has just fetched a reading and is about    *)
(* to store it, and a second call that looks the city up afterwards.       *)
(***************************************************************************)
Temperatures == { -5, 0, 215 }
Humidities == { 0, 64 }
Sunrises == { None, Some(0), Some(TicksPerSecond) }

Readings(t) ==
    { Measured(WeatherData(name, t), temperature, humidity, sunrise) :
        name \in ProviderNames, temperature \in Temperatures,
        humidity \in Humidities, sunrise \in Sunrises }

Fetched(city, reading) ==
    [IdleRequest EXCEPT !.pc = "store", !.city = city,
        !.start_time = reading.timestamp, !.weather_data = Some(reading)]

InitRoundTrip ==
    /\ now \in 0..MaxSmallTicks
    /\ store = {}
    /\ backlog = [k \in StoreKeys |-> 0]
    /\ events = << >>
    /\ uuids = 0
    /\ \E city \in Cities, reading \in Readings(now) :
          req = [w \in Pair |-> IF w = 1 THEN Fetched(city, reading) ELSE IdleRequest]
    /\ calls = [w \in Pair |->
                  IF w = 1 THEN [NoCalls EXCEPT !.lookup = 1, !.provider = <<"ok">>]
                  ELSE NoCalls]
    /\ peers = 0

NextRoundTrip ==
    \/ Tick
    \/ Store(1)
    \/ LogFresh(1)
    \/ \E city \in Cities : Request(2, city)
    \/ CacheList(2)
    \/ CacheGet(2)
    \/ LogCached(2)

SpecRoundTrip == InitRoundTrip /\ [][NextRoundTrip]_vars

(***************************************************************************)
(* The event table read side.  log_weather_event stores the event as a     *)
(* DynamoDB item (a None attribute is left out, the timestamp is its ISO   *)
(* string); get_recent_events rebuilds WeatherEvent objects from the items *)
(* of one scan(Limit=limit), then sorts them by timestamp, latest first.   *)
(* A scan returns items in the order of the hash of their key: event ids   *)
(* are uuid4 values, so an item's place in that order has nothing to do    *)
(* with when it was put.  Here the order of the ids stands for it.         *)
(***************************************************************************)
SerializeItem(event) ==
    [f \in DOMAIN event \ (IF event.error = None THEN {"error"} ELSE {}) |->
        CASE f = "timestamp" -> IsoFormat(event[f])
          [] f = "error" -> event[f][1]
          [] OTHER -> event[f]]

DeserializeItem(item) ==
    WeatherEvent(item.event_id, item.city, FromIsoFormat(item.timestamp),
                 item.s3_path, item.response_time_ms, item.cached,
                 IF "error" \in DOMAIN item THEN Some(item.error) ELSE None)

RECURSIVE ScanOrder(_)
ScanOrder(items) ==
    IF items = {} THEN << >>
    ELSE LET first == CHOOSE e \in items : \A o \in items : e.event_id <= o.event_id
         IN  << first >> \o ScanOrder(items \ {first})

Scan(table, limit) ==
    LET all == ScanOrder({ table[i] : i \in DOMAIN table })
    IN  SubSeq(all, 1, IF limit < Len(all) THEN limit ELSE Len(all))

\* list.sort(key=timestamp, reverse=True): stable, so events with equal
\* timestamps keep the order the scan gave them
RECURSIVE SortRecentFirst(_)
SortRecentFirst(seq) ==
    IF seq = << >> THEN << >>
    ELSE LET i == CHOOSE i \in 1..Len(seq) :
                      /\ \A j \in 1..Len(seq) : seq[j].timestamp <= seq[i].timestamp
                      /\ \A j \in 1..(i - 1) : seq[j].timestamp < seq[i].timestamp
         IN  << seq[i] >> \o
                 SortRecentFirst(SubSeq(seq, 1, i - 1) \o SubSeq(seq, i + 1, Len(seq)))

\* a read that keeps only the events of the current tick
RecentEventsWithinWindow(table, limit) ==
    LET items == Scan(table, limit)
    IN  SortRecentFirst(SelectSeq([i \in 1..Len(items) |->
                                      DeserializeItem(SerializeItem(items[i]))],
                                  LAMBDA e : e.timestamp >= now))

RecentEventsResult(table, limit) ==
    LET items == Scan(table, limit)
    IN  SortRecentFirst([i \in 1..Len(items) |->
                            DeserializeItem(SerializeItem(items[i]))])

\* except Exception: return []
GetRecentEvents(table, limit, ok) ==
    IF ok THEN RecentEventsResult(table, limit) ELSE << >>

(***************************************************************************)
(* list_recent_files: one listing of the whole weather_data/ prefix, the   *)
(* keys of the objects last modified within the window.                    *)
(***************************************************************************)
StatsWindowTicks == StatsHours * MinutesPerHour * SecondsPerMinute * TicksPerSecond

ListRecentFiles(objs, bl, t, ok) ==
    IF ~ok THEN {}
    ELSE LET response == ListObjectsV2(objs, bl, << "weather_data/" >>)
         IN  IF response.KeyCount = 0 THEN {}
             ELSE { o.key : o \in { c \in response.Contents :
                                       c.LastModified > t - StatsWindowTicks } }

(***************************************************************************)
(* log_weather_event called by the requests of other processes: the table  *)
(* is shared.  str(e) of an exception raised without a message (a          *)
(* timeout of the HTTP client) is the empty string.                        *)
(***************************************************************************)
LoggedOutcomes ==
    { [s3_path |-> << "cached" >>, response_time_ms |-> 1, cached |-> TRUE,
       error |-> None],
      [s3_path |-> S3Path(GenerateFileKey(<< "a" >>, 0)), response_time_ms |-> 4,
       cached |-> FALSE, error |-> None],
      [s3_path |-> << >>, response_time_ms |-> 4, cached |-> FALSE,
       error |-> Some(CityNotFound(<< "a" >>))],
      [s3_path |-> << >>, response_time_ms |-> 9, cached |-> FALSE,
       error |-> Some(NoMsg)] }

PeerLog(event_id, outcome) ==
    /\ Len(events) < MaxEvents
    /\ \A i \in DOMAIN events : events[i].event_id # event_id
    /\ events' = PutItem(events,
                     WeatherEvent(event_id, << "a" >>, now, outcome.s3_path,
                                  outcome.response_time_ms, outcome.cached, outcome.error))
    /\ uuids' = uuids + 1
    /\ UNCHANGED <<now, store, backlog, req, calls, peers>>

(***************************************************************************)
(* A caller of the read side: its call of get_recent_events and the call   *)
(* before it, or its get_stats request.                                    *)
(***************************************************************************)
IdleCaller ==
    [pc |-> "idle", limit |-> 0, table |-> << >>, events |-> << >>,
     events_failed |-> FALSE, last |-> None, recent_files |-> {},
     files_failed |-> FALSE, response |-> None]

RecentEvents(w, limit) ==
    /\ req[w].pc \in {"idle", "called"}
    /\ \E ok \in BOOLEAN :
          req' = [req EXCEPT ![w] = [@ EXCEPT
                    !.pc = "called", !.limit = limit, !.table = events,
                    !.events = GetRecentEvents(events, limit, ok),
                    !.events_failed = ~ok,
                    !.last = IF req[w].pc = "called"
                             THEN Some([limit |-> req[w].limit, table |-> req[w].table,
                                        events |-> req[w].events,
                                        events_failed |-> req[w].events_failed])
                             ELSE None]]
    /\ UNCHANGED <<now, store, backlog, events, uuids, calls, peers>>

InitReadSide ==
    /\ now = 0
    /\ store = {}
    /\ backlog = [k \in StoreKeys |-> 0]
    /\ events = << >>
    /\ uuids = 0
    /\ req = [w \in Workers |-> IdleCaller]
    /\ calls = [w \in Workers |-> NoCalls]
    /\ peers = 0

NextRecent ==
    \/ Tick
    \/ \E event_id \in 1..MaxEvents, outcome \in { o \in LoggedOutcomes : o.cached } :
          PeerLog(event_id, outcome)
    \/ \E w \in Workers, limit \in 1..MaxEvents : RecentEvents(w, limit)

SpecRecent == InitReadSide /\ [][NextRecent]_vars

(***************************************************************************)
(* get_stats: the recent events, the recent files, and the figures         *)
(* computed from them.  A rate is a fraction; the mean response time is    *)
(* rounded to hundredths.                                                  *)
(***************************************************************************)
\* a scan failure that get_recent_events lets through: get_stats catches it
\* and raises HTTPException(500, "Failed to retrieve statistics")
ScanFailurePropagates(r) ==
    [r EXCEPT !.pc = "done", !.events_failed = TRUE,
        !.response = Some(HTTPException(500, Msg("Failed to retrieve statistics", << >>)))]

\* the scan's failure handled inside get_recent_events: get_stats goes on
ScanFailed(r) ==
    [r EXCEPT !.pc = "stats_files", !.events = << >>, !.events_failed = TRUE]

StatsEvents(w) ==
    /\ req[w].pc = "idle"
    /\ \E ok \in BOOLEAN :
          req' = [req EXCEPT ![w] =
                    IF ok
                    THEN [@ EXCEPT !.pc = "stats_files", !.limit = StatsLimit,
                             !.table = events,
                             !.events = GetRecentEvents(events, StatsLimit, TRUE)]
                    ELSE ScanFailed([@ EXCEPT !.limit = StatsLimit, !.table = events])]
    /\ UNCHANGED <<now, store, backlog, events, uuids, calls, peers>>

\* truth value of an Optional[str]: None and "" are false
Truthy(error) == error # None /\ error[1] # NoMsg

RECURSIVE SumResponseTimes(_)
SumResponseTimes(seq) ==
    IF seq = << >> THEN 0
    ELSE Head(seq).response_time_ms + SumResponseTimes(Tail(seq))

\* x / total if total > 0 else 0
Rate(x, total) ==
    IF total > 0 THEN [num |-> x, den |-> total] ELSE [num |-> 0, den |-> 1]

\* round(x, 2), in hundredths
Round2(x) == (200 * x.num + x.den) \div (2 * x.den)

StatsResponse(evts, recent_files) ==
    LET total_requests == Len(evts)
        cached_requests == Cardinality({ i \in DOMAIN evts : evts[i].cached })
        error_requests == Cardinality({ i \in DOMAIN evts : Truthy(evts[i].error) })
    IN  [status |-> 200,
         total_requests_24h |-> total_requests,
         cached_requests |-> cached_requests,
         cache_hit_rate |-> Rate(cached_requests, total_requests),
         error_requests |-> error_requests,
         error_rate |-> Rate(error_requests, total_requests),
         avg_response_time_ms |-> Round2(Rate(SumResponseTimes(evts), total_requests)),
         files_stored_24h |-> Cardinality(recent_files)]

StatsFiles(w) ==
    /\ req[w].pc = "stats_files"
    /\ \E ok \in BOOLEAN :
          LET recent_files == ListRecentFiles(store, backlog, now, ok)
          IN  req' = [req EXCEPT ![w] = [@ EXCEPT
                        !.pc = "done", !.recent_files = recent_files,
                        !.files_failed = ~ok,
                        !.response = Some(StatsResponse(req[w].events, recent_files))]]
    /\ UNCHANGED <<now, store, backlog, events, uuids, calls, peers>>

NextStats ==
    \/ \E outcome \in LoggedOutcomes : PeerLog(Len(events) + 1, outcome)
    \/ \E name \in ProviderNames : PeerStore(name)
    \/ \E w \in Workers : StatsEvents(w)
    \/ \E w \in Workers : StatsFiles(w)

SpecStats == InitReadSide /\ [][NextStats]_vars

(***************************************************************************)
(* The service as a whole: one /weather request (with or without its city  *)
(* parameter), one /stats request, and the other processes that share the  *)
(* bucket and the event table.                                             *)
(***************************************************************************)
WeatherCaller == 1
StatsCaller == 2

InitService ==
    /\ now = 0
    /\ store = {}
    /\ backlog = [k \in StoreKeys |-> 0]
    /\ events = << >>
    /\ uuids = 0
    /\ req = [w \in Pair |-> IF w = WeatherCaller THEN IdleRequest ELSE IdleCaller]
    /\ calls = [w \in Pair |-> NoCalls]
    /\ peers = 0

NextService ==
    \/ \E city \in Cities : Request(WeatherCaller, city)
    \/ RequestWithoutCity(WeatherCaller)
    \/ CacheList(WeatherCaller)
    \/ CacheGet(WeatherCaller)
    \/ Unexpected(WeatherCaller)
    \/ LogCached(WeatherCaller)
    \/ Fetch(WeatherCaller)
    \/ LogNotFound(WeatherCaller)
    \/ LogUnavailable(WeatherCaller)
    \/ Store(WeatherCaller)
    \/ LogFresh(WeatherCaller)
    \/ LogInternal(WeatherCaller)
    \/ \E name \in ProviderNames : PeerStore(name)
    \/ \E outcome \in { o \in LoggedOutcomes : o.cached } : PeerLog(uuids + 1, outcome)
    \/ StatsEvents(StatsCaller)
    \/ StatsFiles(StatsCaller)

SpecService == InitService /\ [][NextService]_vars

(***************************************************************************)
(* get_cached_weather_data as a function of the bucket's contents: the     *)
(* bucket holds readings of one city captured in different seconds, each   *)
(* written at one of two instants within the TTL, and two calls look the   *)
(* city up.  Nothing writes to the bucket meanwhile.                       *)
(***************************************************************************)
TieCity == << "a" >>
TieCaptures == { s * TicksPerSecond : s \in 0..(MaxTieKeys - 1) }
TieNow == MaxTieKeys * TicksPerSecond
TieWrites == { TieNow - 1, TieNow }

StoredReading(t, written) ==
    CHOOSE o \in PutObject({}, GenerateFileKey(TieCity, t), ModelDump(WeatherData(TieCity, t)),
                           [city |-> TieCity, timestamp |-> IsoFormat(t)], written) : TRUE

InitTie ==
    /\ now = TieNow
    /\ \E captured \in SUBSET TieCaptures, written \in [TieCaptures -> TieWrites] :
          store = { StoredReading(t, written[t]) : t \in captured }
    /\ backlog = [k \in StoreKeys |-> 0]
    /\ events = << >>
    /\ uuids = 0
    /\ req = [w \in Pair |-> IdleRequest]
    /\ calls = [w \in Pair |-> NoCalls]
    /\ peers = 0

NextTie ==
    \/ \E w \in Pair, city \in PairCities : Request(w, city)
    \/ \E w \in Pair : CacheList(w)
    \/ \E w \in Pair : CacheGet(w)

SpecTie == InitTie /\ [][NextTie]_vars

(***************************************************************************)
(* Vocabulary of the properties.                                           *)
(***************************************************************************)
Range(f) == { f[i] : i \in DOMAIN f }

Responded(w) == req[w].response # None

\* the events in the table that worker w's request put there
EventsOf(w) == { events[i] : i \in { j \in DOMAIN events :
                                        events[j].event_id \in Range(calls[w].logged) } }

\* the stored objects of a city (by its normalized key), and those of them
\* last modified within the TTL of time t
OwnEntries(objs, city) ==
    { o \in objs : NormalizeCity(o.metadata.city) = NormalizeCity(city) }

FreshEntries(objs, city, t) ==
    { o \in OwnEntries(objs, city) : t - o.LastModified < TTLTicks }

\* steps of worker w: the listing of the cache lookup returned (did not
\* raise); the read of the chosen object returned; a log call was made
ListReturns(w) ==
    /\ req[w].pc = "lookup"
    /\ calls'[w].lookup = calls[w].lookup + 1
    /\ ~req'[w].cache_error

GetReturns(w) ==
    /\ req[w].pc = "cache_get"
    /\ req'[w].pc # "cache_get"
    /\ ~req'[w].cache_error

LogStep(w) == Len(calls'[w].log) = Len(calls[w].log) + 1

(***************************************************************************)
(* C1.  When the cache lookup misses and the provider fetch succeeds, the  *)
(* request ends in 200 with success=true, cached=false and the fetched     *)
(* reading whether the store write returned or raised; the event logged    *)
(* for the request has the location "storage_failed" when the write        *)
(* raised, and the location of a stored object (never the sentinel) when   *)
(* it returned.                                                            *)
(***************************************************************************)
C1_StorageFailureKeepsSuccess ==
    \A w \in Workers :
        (req[w].pc = "done" /\ calls[w].provider = <<"ok">>) =>
            /\ Len(calls[w].store) = 1
            /\ req[w].response[1].status = 200
            /\ req[w].response[1].success
            /\ ~req[w].response[1].cached
            /\ req[w].response[1].data = req[w].weather_data
            /\ \A e \in EventsOf(w) :
                  IF calls[w].store = <<FALSE>>
                  THEN e.s3_path = <<"storage_failed">>
                  ELSE /\ e.s3_path # <<"storage_failed">>
                       /\ \E o \in store : e.s3_path = S3Path(o.key)

C1_Witness ==
    \E w \in Workers :
        /\ req[w].pc = "done"
        /\ calls[w].provider = <<"ok">>
        /\ calls[w].store = <<FALSE>>
        /\ \E e \in EventsOf(w) : e.s3_path = <<"storage_failed">>

(***************************************************************************)
(* C2.  On every path of get_weather the step that makes the log call      *)
(* ends the request with a status and a body fixed by the state before     *)
(* the call (200 with the cached or the fetched reading, 404 with the      *)
(* error's text, 503 or 500 with the fixed detail): whether the log call   *)
(* returned or raised does not enter the response.                         *)
(***************************************************************************)
C2_ExpectedStatus(r) ==
    CASE r.pc = "cache_hit" -> 200
      [] r.pc = "fresh" -> 200
      [] r.pc = "not_found" -> 404
      [] r.pc = "unavailable" -> 503
      [] r.pc = "internal" -> 500

C2_ExpectedData(r) ==
    CASE r.pc = "cache_hit" -> r.cached_data
      [] r.pc = "fresh" -> r.weather_data
      [] OTHER -> None

C2_ExpectedDetail(r) ==
    CASE r.pc = "not_found" -> r.error[1].text
      [] r.pc = "unavailable" -> Msg("Weather service temporarily unavailable", << >>)
      [] r.pc = "internal" -> Msg("Internal server error", << >>)
      [] OTHER -> NoMsg

C2_LogOutcomeIrrelevant ==
    [][\A w \in Workers :
          LogStep(w) =>
              /\ req'[w].pc = "done"
              /\ Responded(w)'
              /\ req'[w].response[1].status = C2_ExpectedStatus(req[w])
              /\ req'[w].response[1].success = (C2_ExpectedStatus(req[w]) = 200)
              /\ req'[w].response[1].data = C2_ExpectedData(req[w])
              /\ req'[w].response[1].cached = (req[w].pc = "cache_hit")
              /\ req'[w].response[1].detail = C2_ExpectedDetail(req[w])]_vars

C2_Witness ==
    \E w \in Workers :
        /\ req[w].pc = "done"
        /\ calls[w].log = <<FALSE>>
        /\ req[w].response[1].status = 200
        /\ EventsOf(w) = {}

(***************************************************************************)
(* C3.  A request has a response exactly when it has ended, the response   *)
(* is one of success (200), not-found (404), service-unavailable (503) and *)
(* internal error (500) and never changes afterwards, and the request      *)
(* puts at most one event in the event table.                              *)
(***************************************************************************)
C3_OneOutcomeAtMostOneEvent ==
    /\ [](\A w \in Workers :
            /\ Responded(w) <=> req[w].pc \in {"done", "handled"}
            /\ req[w].pc = "done" => req[w].response[1].status \in {200, 404, 503, 500}
            /\ Len(calls[w].logged) <= 1
            /\ Cardinality(EventsOf(w)) <= 1
            /\ Len(events) <= Cardinality(Workers))
    /\ [][\A w \in Workers : Responded(w) => req'[w].response = req[w].response]_vars

C3_Witness ==
    \E w \in Workers :
        /\ req[w].pc = "done"
        /\ req[w].response[1].status = 404
        /\ Cardinality(EventsOf(w)) = 1

(***************************************************************************)
(* C4.  When the requested city has a stored entry last modified within    *)
(* the TTL at the time of the lookup, and the store answers the lookup's   *)
(* calls, get_cached_weather_data returns an entry and get_weather         *)
(* responds with cached=true and a cache age that is not negative.         *)
(***************************************************************************)
C4_FreshEntryIsServed ==
    [][\A w \in Workers :
          /\ (ListReturns(w) /\ FreshEntries(store, req[w].city, now) # {})
                => req'[w].pc = "cache_get"
          /\ GetReturns(w)
                => (req'[w].pc = "cache_hit" /\ req'[w].cached_data # None)
          /\ (req[w].pc = "cache_hit" /\ LogStep(w))
                => /\ req'[w].response[1].cached
                   /\ req'[w].response[1].cache_age_minutes # None
                   /\ req'[w].response[1].cache_age_minutes[1].num >= 0]_vars

(***************************************************************************)
(* C5.  When the requested city has no stored entry last modified within   *)
(* the TTL at the time of the lookup, the lookup ends in a miss, and a     *)
(* request that missed calls the provider exactly once; no request calls   *)
(* it twice.                                                               *)
(***************************************************************************)
C5_MissCallsProviderOnce ==
    /\ [][\A w \in Workers :
            (/\ req[w].pc = "lookup"
             /\ calls'[w].lookup = calls[w].lookup + 1
             /\ FreshEntries(store, req[w].city, now) = {})
                => req'[w].pc = "fetch"]_vars
    /\ [](\A w \in Workers :
            /\ Len(calls[w].provider) <= 1
            /\ req[w].pc = "fetch" => calls[w].provider = << >>
            /\ req[w].pc \in {"store", "fresh", "not_found", "unavailable"}
                  => Len(calls[w].provider) = 1)

(***************************************************************************)
(* C6.  When the cache misses and the provider answers 404, the response   *)
(* is 404 with the not-found message naming the requested city as its      *)
(* detail, and the event put for the request has an empty location,        *)
(* cached=false and that message as its error.                             *)
(***************************************************************************)
C6_NotFoundResponseAndEvent ==
    \A w \in Workers :
        (req[w].pc = "done" /\ calls[w].provider = <<"404">>) =>
            /\ req[w].response[1].status = 404
            /\ req[w].response[1].detail = CityNotFound(req[w].city)
            /\ \A e \in EventsOf(w) :
                  /\ e.s3_path = << >>
                  /\ ~e.cached
                  /\ e.error = Some(CityNotFound(req[w].city))

C6_Witness ==
    \E w \in Workers :
        /\ req[w].pc = "done"
        /\ calls[w].provider = <<"404">>
        /\ req[w].response[1].detail.arg = req[w].city
        /\ Cardinality(EventsOf(w)) = 1

(***************************************************************************)
(* C7.  When the cache misses and the fetch fails for a reason other than  *)
(* the provider's 404 (another HTTP error, a transport failure, a payload  *)
(* that is malformed or lacks a required field), the response is 503 with  *)
(* the fixed detail, never 404, and the error's text is not in it.         *)
(***************************************************************************)
C7_FetchFailureIsUnavailable ==
    \A w \in Workers :
        (/\ req[w].pc = "done"
         /\ Len(calls[w].provider) = 1
         /\ calls[w].provider[1] \in {"http_error", "network", "missing_field", "bad_json"})
            => /\ req[w].response[1].status = 503
               /\ req[w].response[1].detail = Msg("Weather service temporarily unavailable", << >>)
               /\ req[w].response[1].detail # req[w].error[1].text

(***************************************************************************)
(* C8.  A failure response (404, 503, 500) carries the text of the         *)
(* exception that caused it only when that exception is the provider's     *)
(* city-not-found answer.                                                  *)
(***************************************************************************)
C8_NoExceptionTextInFailures ==
    \A w \in Workers :
        (/\ Responded(w)
         /\ req[w].response[1].status \in {404, 503, 500}
         /\ req[w].error # None)
            => \/ calls[w].provider = <<"404">>
               \/ /\ req[w].response[1].detail # req[w].error[1].text
                  /\ req[w].response[1].message # req[w].error[1].text
                  /\ req[w].response[1].details # Some(req[w].error[1].text)

(***************************************************************************)
(* C9.  When the store answers the lookup's calls, get_cached_weather_data *)
(* returns none if the city has no stored entry last modified within the   *)
(* TTL, and otherwise returns the content of one of the city's entries     *)
(* within the TTL whose last-modified time is the latest among them.       *)
(***************************************************************************)
C9_LatestFreshEntryOfCity ==
    [][\A w \in Workers :
          /\ ListReturns(w) =>
                LET fresh == FreshEntries(store, req[w].city, now)
                IN  IF fresh = {}
                    THEN req'[w].pc = "fetch"
                    ELSE /\ req'[w].pc = "cache_get"
                         /\ \E o \in fresh :
                               /\ req'[w].latest_key = Some(o.key)
                               /\ \A p \in fresh : p.LastModified <= o.LastModified
          /\ GetReturns(w) =>
                \E o \in store :
                    /\ req[w].latest_key = Some(o.key)
                    /\ req'[w].cached_data = Some(ParseWeatherData(o.body))]_vars

(***************************************************************************)
(* C10.  For a requested city X with no stored entry, when the provider    *)
(* returns a valid payload and the store write returns, a new object       *)
(* appears under the key prefix of X's normalized key, the response has    *)
(* cached=false, and the event the log call puts is the request's only     *)
(* one, with cached=false and a location other than "storage_failed".      *)
(***************************************************************************)
C10_FreshReadingStoredUnderRequestedCity ==
    [][\A w \in Workers :
          /\ (/\ req[w].pc = "store"
              /\ calls'[w].store = <<TRUE>>
              /\ OwnEntries(store, req[w].city) = {}
              /\ backlog[NormalizeCity(req[w].city)] = 0)
                => \E o \in store' \ store : IsPrefix(CityPrefix(req[w].city), o.key)
          /\ (/\ req[w].pc = "fresh"
              /\ calls[w].store = <<TRUE>>
              /\ calls'[w].log = <<TRUE>>)
                => /\ ~req'[w].response[1].cached
                   /\ Cardinality(EventsOf(w)') = 1
                   /\ \A e \in EventsOf(w)' :
                         ~e.cached /\ e.s3_path # <<"storage_failed">>]_vars

(***************************************************************************)
(* C19.  Once store_weather_data has written an object under a key, no     *)
(* later write changes the content under that key: readings with           *)
(* different capture timestamps are stored under different keys.           *)
(***************************************************************************)
C19_StoredReadingImmutable ==
    [][\A o \in store : \A p \in store' :
          p.key = o.key => p.body = o.body]_vars

(***************************************************************************)
(* C20.  A request that ended through the outer handler of get_weather     *)
(* has the response 500 with the detail "Internal server error", which is  *)
(* not the text of the exception caught; it called the log once and put    *)
(* at most one event, and the event it put has an empty location,          *)
(* cached=false and the exception's text as its error.                     *)
(***************************************************************************)
C20_OuterHandlerGenericFailure ==
    \A w \in DOMAIN req :
        (req[w].pc = "done" /\ req[w].response[1].status = 500) =>
            /\ req[w].error # None
            /\ req[w].response[1].detail = Msg("Internal server error", << >>)
            /\ req[w].response[1].detail # req[w].error[1].text
            /\ req[w].response[1].message # req[w].error[1].text
            /\ req[w].response[1].details = None
            /\ Len(calls[w].log) = 1
            /\ Cardinality(EventsOf(w)) = (IF calls[w].log = <<TRUE>> THEN 1 ELSE 0)
            /\ \A e \in EventsOf(w) :
                  /\ e.s3_path = << >>
                  /\ ~e.cached
                  /\ e.error = Some(req[w].error[1].text)

C20_Witness ==
    \E w \in DOMAIN req :
        /\ req[w].pc = "done"
        /\ req[w].response[1].status = 500
        /\ req[w].error = Some(Exc("Exception", Msg("unexpected failure", << >>)))
        /\ \E e \in EventsOf(w) : e.error = Some(Msg("unexpected failure", << >>))

(***************************************************************************)
(* C11.  After a request for city string X has ended in a fresh success    *)
(* whose store write returned, a later request for the same string X       *)
(* whose lookup runs within the TTL of that reading, with the store        *)
(* answering, finds the entry, is answered cached=true and never calls     *)
(* the provider.                                                           *)
(***************************************************************************)
FreshSuccessStored(w) ==
    /\ req[w].pc = "done"
    /\ req[w].response[1].status = 200
    /\ ~req[w].response[1].cached
    /\ calls[w].store = <<TRUE>>

C11_LaterRequestServedFromCache ==
    [][\A w1 \in DOMAIN req : \A w2 \in DOMAIN req \ {w1} :
          (/\ FreshSuccessStored(w1)
           /\ req[w2].city = req[w1].city
           /\ now - req[w1].weather_data[1].timestamp < TTLTicks)
             => /\ ListReturns(w2) => req'[w2].pc = "cache_get"
                /\ GetReturns(w2) => req'[w2].pc = "cache_hit"
                /\ (req[w2].pc = "cache_hit" /\ LogStep(w2))
                      => /\ req'[w2].response[1].cached
                         /\ calls'[w2].provider = << >>]_vars

(***************************************************************************)
(* C12.  Two requests whose city strings are equal up to letter case and   *)
(* surrounding whitespace have the same key prefix and the same stored     *)
(* objects under it; the events a request puts and the message of its      *)
(* success response carry its city string as supplied.                     *)
(***************************************************************************)
RECURSIVE Strip(_)
Strip(city) ==
    IF city = << >> THEN city
    ELSE IF Head(city) = " " THEN Strip(Tail(city))
    ELSE IF city[Len(city)] = " " THEN Strip(SubSeq(city, 1, Len(city) - 1))
    ELSE city

CaseFold(city) == [i \in 1..Len(city) |-> Lower(city[i])]

C12_CityKeyNormalized ==
    \A w1 \in DOMAIN req : \A w2 \in DOMAIN req :
        /\ (/\ req[w1].pc # "idle"
            /\ req[w2].pc # "idle"
            /\ CaseFold(Strip(req[w1].city)) = CaseFold(Strip(req[w2].city)))
              => /\ CityPrefix(req[w1].city) = CityPrefix(req[w2].city)
                 /\ Matching(store, CityPrefix(req[w1].city))
                      = Matching(store, CityPrefix(req[w2].city))
        /\ \A e \in EventsOf(w1) : e.city = req[w1].city
        /\ (req[w1].pc = "done" /\ req[w1].response[1].status = 200)
              => req[w1].response[1].message.arg = req[w1].city

(***************************************************************************)
(* C18.  With two requests in flight, a request that missed the cache and  *)
(* whose fetch succeeded has called the provider once, attempts one store  *)
(* write, and ends in 200 with success=true, cached=false and the reading  *)
(* it fetched itself; no request calls the provider or the store twice,    *)
(* and a step of one request changes nothing of the other request.         *)
(***************************************************************************)
C18_ConcurrentMissesIndependent ==
    /\ [](\A w \in DOMAIN req :
            /\ Len(calls[w].provider) <= 1
            /\ Len(calls[w].store) <= 1
            /\ calls[w].provider = <<"ok">> =>
                  /\ req[w].pc \in {"store", "fresh", "done"}
                  /\ req[w].weather_data # None
                  /\ req[w].pc \in {"fresh", "done"} => Len(calls[w].store) = 1
                  /\ req[w].pc = "done" =>
                        /\ req[w].response[1].status = 200
                        /\ req[w].response[1].success
                        /\ ~req[w].response[1].cached
                        /\ req[w].response[1].data = req[w].weather_data)
    /\ [][\A w1 \in DOMAIN req : \A w2 \in DOMAIN req \ {w1} :
            (req'[w1] # req[w1] \/ calls'[w1] # calls[w1])
                => (req'[w2] = req[w2] /\ calls'[w2] = calls[w2])]_vars

C18_Witness ==
    /\ \A w \in DOMAIN req :
          /\ req[w].pc = "done"
          /\ req[w].city = <<"a">>
          /\ ~req[w].cache_error
          /\ calls[w].provider = <<"ok">>
          /\ calls[w].store = <<TRUE>>
          /\ req[w].weather_data[1].city = <<"A">>
          /\ ~req[w].response[1].cached
    /\ req[1].weather_data # req[2].weather_data

(***************************************************************************)
(* C16.  A reading written by store_weather_data and read back from the    *)
(* same object by get_cached_weather_data has the field values it was      *)
(* written with: city, temperature, humidity, capture timestamp, and the   *)
(* sunrise present exactly when it was present.                            *)
(***************************************************************************)
C16_StoredReadingRoundTrip ==
    \A w1 \in DOMAIN req : \A w2 \in DOMAIN req \ {w1} :
        (/\ calls[w1].store = <<TRUE>>
         /\ req[w2].cached_data # None
         /\ req[w2].latest_key =
               Some(GenerateFileKey(req[w1].weather_data[1].city,
                                    req[w1].weather_data[1].timestamp)))
            => /\ req[w2].cached_data = req[w1].weather_data
               /\ \A f \in DOMAIN req[w1].weather_data[1] :
                     req[w2].cached_data[1][f] = req[w1].weather_data[1][f]

C16_Witness ==
    /\ calls[1].store = <<TRUE>>
    /\ req[2].pc = "done"
    /\ req[2].response[1].cached
    /\ req[2].response[1].data = req[1].weather_data
    /\ req[1].weather_data[1].timestamp % TicksPerSecond # 0
    /\ req[1].weather_data[1].temperature < 0
    /\ req[1].weather_data[1].sunrise = None

(***************************************************************************)
(* C13.  A call of get_recent_events(limit) that did not fail returns at   *)
(* most limit events, as many as the table allows, ordered by timestamp    *)
(* descending, and no event of the table it leaves out is newer than one   *)
(* it returns.                                                             *)
(***************************************************************************)
C13_MostRecentEventsReturned ==
    \A w \in DOMAIN req :
        (req[w].pc = "called" /\ ~req[w].events_failed) =>
            LET result == req[w].events
                table == req[w].table
            IN  /\ Len(result) <= req[w].limit
                /\ Len(result) = (IF req[w].limit < Len(table)
                                  THEN req[w].limit ELSE Len(table))
                /\ \A i \in 1..Len(result) : \A j \in i..Len(result) :
                      result[i].timestamp >= result[j].timestamp
                /\ \A e \in Range(table) \ Range(result) : \A r \in Range(result) :
                      e.timestamp <= r.timestamp

(***************************************************************************)
(* C14.  get_stats answers 200 whether or not its reads failed: when the   *)
(* scan fails the events are the empty list and the request, cached and    *)
(* error counts, both rates and the mean are 0; when the listing fails     *)
(* the files are the empty list and the file count is 0.                   *)
(***************************************************************************)
C14_ReadFailuresGiveEmptyStats ==
    \A w \in DOMAIN req :
        /\ req[w].events_failed => req[w].events = << >>
        /\ req[w].files_failed => req[w].recent_files = {}
        /\ (req[w].events_failed \/ req[w].files_failed) => req[w].pc \in {"stats_files", "done"}
        /\ (req[w].pc = "done" /\ (req[w].events_failed \/ req[w].files_failed)) =>
              /\ req[w].response[1].status = 200
              /\ req[w].events_failed =>
                    /\ req[w].response[1].total_requests_24h = 0
                    /\ req[w].response[1].cached_requests = 0
                    /\ req[w].response[1].error_requests = 0
                    /\ req[w].response[1].cache_hit_rate.num = 0
                    /\ req[w].response[1].error_rate.num = 0
                    /\ req[w].response[1].avg_response_time_ms = 0
              /\ req[w].files_failed => req[w].response[1].files_stored_24h = 0

C14_Witness ==
    \E w \in DOMAIN req :
        /\ req[w].pc = "done"
        /\ req[w].events_failed
        /\ req[w].files_failed
        /\ events # << >>
        /\ store # {}
        /\ req[w].response[1].status = 200
        /\ req[w].response[1].total_requests_24h = 0
        /\ req[w].response[1].files_stored_24h = 0

(***************************************************************************)
(* C15.  The figures of get_stats are those of the events and the files    *)
(* its two reads returned: total = number of events, cached count = events *)
(* with cached=true, error count = events with an error, files count =     *)
(* number of files; the cached and error counts do not exceed the total,   *)
(* and with no events both rates and the mean are 0 and the answer is      *)
(* still 200.                                                              *)
(***************************************************************************)
C15_StatsFigures ==
    \A w \in DOMAIN req :
        (req[w].pc = "done") =>
            LET evts == req[w].events
                stats == req[w].response[1]
            IN  /\ stats.status = 200
                /\ stats.total_requests_24h = Len(evts)
                /\ stats.cached_requests = Cardinality({ i \in DOMAIN evts : evts[i].cached })
                /\ stats.error_requests = Cardinality({ i \in DOMAIN evts : evts[i].error # None })
                /\ stats.files_stored_24h = Cardinality(req[w].recent_files)
                /\ stats.cached_requests <= stats.total_requests_24h
                /\ stats.error_requests <= stats.total_requests_24h
                /\ evts = << >> =>
                      /\ stats.cache_hit_rate.num = 0
                      /\ stats.error_rate.num = 0
                      /\ stats.avg_response_time_ms = 0

WeatherRequests == { w \in DOMAIN req : "city" \in DOMAIN req[w] }

\* a step of worker w's request
StepOf(w) == req'[w] # req[w] \/ calls'[w] # calls[w]

(***************************************************************************)
(* C21.  A /weather request without the city parameter is answered 422     *)
(* and goes no further: it has made no cache lookup, no provider call, no  *)
(* store write and no log call, it has put no event, and the step that     *)
(* rejects it changes neither the store nor the event table.               *)
(***************************************************************************)
C21_MissingCityRejected ==
    /\ [](\A w \in DOMAIN req :
            "missing" \in DOMAIN req[w] =>
                /\ req[w].pc = "rejected"
                /\ req[w].response # None
                /\ req[w].response[1].status = 422
                /\ calls[w] = NoCalls
                /\ EventsOf(w) = {})
    /\ [][\A w \in DOMAIN req :
            (StepOf(w) /\ "missing" \in DOMAIN req'[w]) =>
                (store' = store /\ events' = events /\ uuids' = uuids)]_vars

C21_Witness ==
    /\ req[WeatherCaller].pc = "rejected"
    /\ req[WeatherCaller].response[1].status = 422
    /\ calls[WeatherCaller] = NoCalls
    /\ store # {}
    /\ events # << >>

(***************************************************************************)
(* C22.  The event table is append-only: every step keeps the events       *)
(* already in it, unchanged and in place, the table never gets shorter,    *)
(* an event put by a step has an id that no earlier event has, and no two  *)
(* events in the table share an id.                                        *)
(***************************************************************************)
C22_EventLogAppendOnly ==
    /\ [][/\ Len(events') >= Len(events)
          /\ \A i \in DOMAIN events : events'[i] = events[i]
          /\ \A i \in DOMAIN events' \ DOMAIN events : \A j \in DOMAIN events :
                events'[i].event_id # events[j].event_id]_vars
    /\ [](\A i \in DOMAIN events : \A j \in DOMAIN events :
            i # j => events[i].event_id # events[j].event_id)

C22_Witness ==
    /\ Len(events) >= 2
    /\ EventsOf(WeatherCaller) # {}
    /\ events[1] \notin EventsOf(WeatherCaller)
    /\ req[StatsCaller].pc = "done"
    /\ req[StatsCaller].response[1].total_requests_24h >= 1

(***************************************************************************)
(* C23.  Order of the steps of one request.  A request makes at most one   *)
(* log call, makes it in the step that produces its response, and has      *)
(* made exactly one when it has ended in 200, 404, 503 or 500.  The        *)
(* provider is called after the cache lookup and before any store write    *)
(* or log call; the store write is attempted after a successful fetch and  *)
(* before the log call; on the fresh path the log call comes after the     *)
(* one store write attempt has finished.                                   *)
(***************************************************************************)
C23_OneLogBeforeResponse ==
    /\ [](\A w \in WeatherRequests :
            /\ Len(calls[w].log) <= 1
            /\ req[w].pc = "done" => Len(calls[w].log) = 1
            /\ req[w].pc \notin {"done", "rejected", "handled"} =>
                  (calls[w].log = << >> /\ req[w].response = None)
            /\ (/\ req[w].pc = "done"
                /\ req[w].response[1].status = 200
                /\ ~req[w].response[1].cached) =>
                  /\ calls[w].lookup = 1
                  /\ calls[w].provider = << "ok" >>
                  /\ Len(calls[w].store) = 1
                  /\ Len(calls[w].log) = 1)
    /\ [][\A w \in WeatherRequests :
            /\ LogStep(w) => (req[w].response = None /\ req'[w].response # None)
            /\ Len(calls'[w].provider) > Len(calls[w].provider) =>
                  /\ calls[w].lookup >= 1
                  /\ calls[w].store = << >>
                  /\ calls[w].log = << >>
            /\ Len(calls'[w].store) > Len(calls[w].store) =>
                  /\ calls[w].provider = << "ok" >>
                  /\ calls[w].log = << >>
            /\ (LogStep(w) /\ calls[w].provider = << "ok" >>) =>
                  Len(calls[w].store) = 1]_vars

C23_Witness ==
    /\ req[WeatherCaller].pc = "done"
    /\ req[WeatherCaller].response[1].status = 200
    /\ ~req[WeatherCaller].response[1].cached
    /\ calls[WeatherCaller] = [lookup |-> 1, provider |-> << "ok" >>, store |-> << FALSE >>,
                                log |-> << TRUE >>, logged |-> << uuids >>]

(***************************************************************************)
(* C27.  The entry the cache lookup of city X chooses, and the reading it  *)
(* returns, belong to a stored object whose city has the normalized key    *)
(* of X.                                                                   *)
(***************************************************************************)
C27_CachedReadingOfRequestedCity ==
    [][\A w \in WeatherRequests :
          /\ (ListReturns(w) /\ req'[w].latest_key # None) =>
                \E o \in store :
                    /\ req'[w].latest_key = Some(o.key)
                    /\ NormalizeCity(o.metadata.city) = NormalizeCity(req[w].city)
          /\ (GetReturns(w) /\ req'[w].cached_data # None) =>
                NormalizeCity(req'[w].cached_data[1].city) = NormalizeCity(req[w].city)]_vars

(***************************************************************************)
(* C28.  Every event in the table has one of three shapes: cached=true,    *)
(* location "cached", no error; cached=false, no error, and a location     *)
(* that is an s3:// path of the bucket or "storage_failed"; cached=false,  *)
(* empty location and an error.  The event a request put has the cached    *)
(* flag of the request's 200 response, and cached=false when the request   *)
(* ended in an error status.                                               *)
(***************************************************************************)
C28_CachedShape(e) ==
    e.cached /\ e.s3_path = << "cached" >> /\ e.error = None

C28_FreshShape(e) ==
    /\ ~e.cached
    /\ e.error = None
    /\ \/ e.s3_path = << "storage_failed" >>
       \/ \E name \in Cities \cup ProviderNames \cup PairCities, t \in 0..now :
              e.s3_path = << "s3://", "weather-data-bucket", "/" >>
                              \o GenerateFileKey(name, t)

C28_ErrorShape(e) ==
    ~e.cached /\ e.s3_path = << >> /\ e.error # None

C28_EventShapes ==
    /\ \A i \in DOMAIN events :
          \/ C28_CachedShape(events[i])
          \/ C28_FreshShape(events[i])
          \/ C28_ErrorShape(events[i])
    /\ \A w \in WeatherRequests : \A e \in EventsOf(w) :
          req[w].pc = "done" =>
              IF req[w].response[1].status = 200
              THEN e.cached = req[w].response[1].cached
              ELSE ~e.cached

C28_Witness ==
    /\ \E i \in DOMAIN events : C28_CachedShape(events[i])
    /\ \E e \in EventsOf(WeatherCaller) :
          C28_FreshShape(e) /\ e.s3_path = << "storage_failed" >>
    /\ req[WeatherCaller].pc = "done"

(***************************************************************************)
(* C29.  A failure inside the cache lookup (the listing, or the read and   *)
(* the parsing of the chosen object) makes the lookup return none: the     *)
(* request goes on to the provider fetch with no response yet, and ends    *)
(* in the status the fetch decides (200 not cached, 404 or 503), never in  *)
(* 500.                                                                    *)
(***************************************************************************)
C29_LookupFailureIsMiss ==
    /\ [][\A w \in WeatherRequests :
            (req[w].pc \in {"lookup", "cache_get"} /\ req'[w].cache_error) =>
                /\ req'[w].pc = "fetch"
                /\ req'[w].cached_data = None
                /\ req'[w].response = None
                /\ req'[w].error = None]_vars
    /\ [](\A w \in WeatherRequests :
            (req[w].cache_error /\ req[w].pc = "done") =>
                /\ Len(calls[w].provider) = 1
                /\ req[w].response[1].status \in {200, 404, 503}
                /\ req[w].response[1].status = 200 => ~req[w].response[1].cached)

C29_Witness ==
    /\ req[WeatherCaller].cache_error
    /\ req[WeatherCaller].latest_key # None
    /\ req[WeatherCaller].pc = "done"
    /\ req[WeatherCaller].response[1].status = 200
    /\ ~req[WeatherCaller].response[1].cached

(***************************************************************************)
(* C30.  The only step of a /weather request that changes the stored       *)
(* objects is its store step, taken after a successful fetch; every        *)
(* other change of the store is a write of another process.  A request     *)
(* attempts at most one store write, exactly one once its fetch has        *)
(* succeeded and it has ended, and none when it ends in a cache hit, 404,  *)
(* 503 or 500.                                                             *)
(***************************************************************************)
C30_StoreFrame ==
    /\ [][/\ \A w \in WeatherRequests :
              (StepOf(w) /\ store' # store) =>
                  /\ req[w].pc = "store"
                  /\ calls[w].provider = << "ok" >>
                  /\ calls'[w].store = << TRUE >>
          /\ store' # store =>
                (peers' # peers \/ \E w \in WeatherRequests : StepOf(w))]_vars
    /\ [](\A w \in WeatherRequests :
            /\ Len(calls[w].store) <= 1
            /\ calls[w].store # << >> => calls[w].provider = << "ok" >>
            /\ req[w].pc = "done" =>
                  IF calls[w].provider = << "ok" >>
                  THEN Len(calls[w].store) = 1
                  ELSE /\ calls[w].store = << >>
                       /\ \/ req[w].response[1].status \in {404, 503, 500}
                          \/ req[w].response[1].cached)

C30_Witness ==
    /\ req[WeatherCaller].pc = "done"
    /\ req[WeatherCaller].response[1].status = 200
    /\ req[WeatherCaller].response[1].cached
    /\ calls[WeatherCaller].store = << >>
    /\ Cardinality(store) = 1

(***************************************************************************)
(* C25.  On a cache hit the age is the time of the hit minus the capture   *)
(* timestamp the reading was fetched with, whatever the time the object    *)
(* was last modified; the response is 200 with success=true, cached=true,  *)
(* the stored reading as it was written and that age in minutes; the       *)
(* event put has cached=true, the location "cached" and no error.          *)
(***************************************************************************)
C25_CacheHitAgeAndEvent ==
    [][\A w1 \in WeatherRequests : \A w2 \in WeatherRequests \ {w1} :
          /\ (GetReturns(w2) /\ calls[w1].store = << TRUE >>) =>
                /\ req'[w2].cached_data = req[w1].weather_data
                /\ req'[w2].cache_age =
                      Some(now - req[w1].weather_data[1].timestamp)
          /\ (req[w2].pc = "cache_hit" /\ LogStep(w2)) =>
                /\ req'[w2].pc = "done"
                /\ req'[w2].response[1].status = 200
                /\ req'[w2].response[1].success
                /\ req'[w2].response[1].cached
                /\ req'[w2].response[1].data = req[w2].cached_data
                /\ req'[w2].response[1].cache_age_minutes # None
                /\ req'[w2].response[1].cache_age_minutes[1].num = req[w2].cache_age[1]
                /\ req'[w2].response[1].cache_age_minutes[1].den
                      = SecondsPerMinute * TicksPerSecond
                /\ \A e \in EventsOf(w2)' :
                      /\ e.cached
                      /\ e.s3_path = << "cached" >>
                      /\ e.error = None
                      /\ e.city = req[w2].city]_vars

C25_Witness ==
    /\ calls[1].store = << TRUE >>
    /\ req[2].pc = "done"
    /\ req[2].response[1].cached
    /\ req[2].response[1].cache_age_minutes[1].num = 1
    /\ \A o \in store : o.LastModified = now
    /\ \E e \in EventsOf(2) : e.s3_path = << "cached" >>

C24_Stage(pc) ==
    CASE pc = "idle" -> 0
      [] pc = "lookup" -> 1
      [] pc = "cache_get" -> 2
      [] pc = "cache_hit" -> 3
      [] pc = "fetch" -> 3
      [] pc = "store" -> 4
      [] pc = "not_found" -> 4
      [] pc = "unavailable" -> 4
      [] pc = "fresh" -> 5
      [] pc = "internal" -> 6
      [] OTHER -> 7

C24_RequestTerminates ==
    /\ \A w \in Workers :
          (req[w].pc # "idle") ~>
              (/\ req[w].pc = "done"
               /\ req[w].response # None
               /\ req[w].response[1].status \in {200, 404, 503, 500})
    /\ [][\A w \in Workers :
            StepOf(w) => C24_Stage(req'[w].pc) > C24_Stage(req[w].pc)]_vars
    /\ [](\A w \in Workers :
            /\ calls[w].lookup <= 1
            /\ Len(calls[w].provider) <= 1
            /\ Len(calls[w].store) <= 1
            /\ Len(calls[w].log) <= 1)

C24_Witness ==
    \E w \in Workers :
        /\ req[w].pc = "done"
        /\ req[w].response[1].status = 200
        /\ calls[w] = [lookup |-> 1, provider |-> << "ok" >>, store |-> << FALSE >>,
                        log |-> << FALSE >>, logged |-> << >>]

=============================================================================
